---- MODULE Spec2Model ----
(***************************************************************************)
(* A model of the Instagram downloader API: the in-memory rate limiter and *)
(* the request hooks of app.py, and the URL classifier, the snapdownloader *)
(* extraction and the fallback cascade of utlis/downloader.py.             *)
(***************************************************************************)
EXTENDS Integers, Sequences, FiniteSets, TLC

VARIABLES
    now,             \* time.time(), in whole seconds
    request_counts,  \* app.py:21, ip -> [count, timestamp]
    winStart,        \* observer: per ip, when the first request of its window came (-1: none yet)
    winReqs,         \* observer: per ip, the limited requests seen in that window
    blocked,         \* observer: the ips whose latest limited request got a 429
    unblocked,       \* observer: the ips admitted right after a 429
    resp,            \* the latest answer of before_request
    thr,             \* per handler thread: where it stands in check_rate_limit, and its locals
    gen,             \* per ip: which dict object request_counts[ip] is (0: none yet)
    admits,          \* observer: the calls that returned True with current_time <= WINDOW
    call,            \* the downloader call in progress: function, url, media_type, endpoints to try
    log,             \* the upstream fetches of that call: a begin and an end event each
    page,            \* the page the latest fetch parsed (soup), NoPage when it parsed none
    result,          \* what the call returned
    req,             \* the HTTP request being served, or served last
    view,            \* the view function waiting for the downloader or for the remote file
    http             \* the latest HTTP response

rateVars == <<request_counts, winStart, winReqs, blocked, unblocked, resp>>
concVars == <<thr, gen, admits>>
dlVars == <<call, log, page, result>>
httpVars == <<req, view, http>>
vars == <<now, rateVars, concVars, dlVars, httpVars>>

----------------------------------------------------------------------------
(* Program constants and bounds *)

RATE_MAX == 100
WINDOW == 3600

MaxRequests == 102
MaxElems == 2
MaxHttpRequests == 2
NThreads == 2

\* The instants the clock is read at: a window's start, its last second and the
\* first second after it
Instants == {0, WINDOW, WINDOW + 1}

IPs == {"10.0.0.1", "10.0.0.2"}
Paths == {"/health", "/download", "/nope"}

NoResp == [ip |-> "", path |-> "", code |-> 0]

----------------------------------------------------------------------------
(* app.py: the rate limiter *)

Fresh(t) == [count |-> 1, timestamp |-> t]

Put(rc, ip, v) == [x \in (DOMAIN rc) \cup {ip} |-> IF x = ip THEN v ELSE rc[x]]

Sum(f) == LET S == DOMAIN f
              RECURSIVE Go(_)
              Go(T) == IF T = {} THEN 0
                       ELSE LET x == CHOOSE y \in T : TRUE IN f[x] + Go(T \ {x})
          IN  Go(S)

\* check_rate_limit with the limit test off by one (count > 100)
check_rate_limit_off_by_one(rc, ip, t) ==
    IF ip \notin DOMAIN rc
    THEN [ok |-> TRUE, counts |-> Put(rc, ip, Fresh(t))]
    ELSE IF t - rc[ip].timestamp > WINDOW
    THEN [ok |-> TRUE, counts |-> Put(rc, ip, Fresh(t))]
    ELSE IF rc[ip].count > RATE_MAX
    THEN [ok |-> FALSE, counts |-> rc]
    ELSE [ok |-> TRUE,
          counts |-> Put(rc, ip, [rc[ip] EXCEPT !.count = rc[ip].count + 1])]

\* check_rate_limit as a sliding window: every admitted request moves the timestamp
check_rate_limit_sliding(rc, ip, t) ==
    IF ip \notin DOMAIN rc
    THEN [ok |-> TRUE, counts |-> Put(rc, ip, Fresh(t))]
    ELSE IF t - rc[ip].timestamp > WINDOW
    THEN [ok |-> TRUE, counts |-> Put(rc, ip, Fresh(t))]
    ELSE IF rc[ip].count >= RATE_MAX
    THEN [ok |-> FALSE, counts |-> rc]
    ELSE [ok |-> TRUE,
          counts |-> Put(rc, ip, [count |-> rc[ip].count + 1, timestamp |-> t])]

\* check_rate_limit(ip) at time t on the map rc: the verdict and the map after it
check_rate_limit(rc, ip, t) ==
    IF ip \notin DOMAIN rc
    THEN [ok |-> TRUE, counts |-> Put(rc, ip, Fresh(t))]
    ELSE IF t - rc[ip].timestamp > WINDOW
    THEN [ok |-> TRUE, counts |-> Put(rc, ip, Fresh(t))]
    ELSE IF rc[ip].count >= RATE_MAX
    THEN [ok |-> FALSE, counts |-> rc]
    ELSE [ok |-> TRUE,
          counts |-> Put(rc, ip, [rc[ip] EXCEPT !.count = rc[ip].count + 1])]

\* before_request comparing the path with a misspelt '/healthz'
before_request_misspelt(rc, ip, path, t) ==
    LET r == check_rate_limit(rc, ip, t)
    IN  [code |-> IF r.ok THEN 0 ELSE 429, counts |-> r.counts]

\* before_request: code 0 stands for returning None (the request goes on to its view)
before_request(rc, ip, path, t) ==
    IF path = "/health"
    THEN [code |-> 0, counts |-> rc]
    ELSE LET r == check_rate_limit(rc, ip, t)
         IN  [code |-> IF r.ok THEN 0 ELSE 429, counts |-> r.counts]

----------------------------------------------------------------------------
(* utlis/downloader.py: URLs.  A URL string is a sequence of tokens, each a   *)
(* run of characters: the scheme and host, a slash, a path segment, a query,  *)
(* a fragment, a blank.  Substring tests for '/reel/' and the like are tests  *)
(* for adjacent tokens.                                                       *)

Host == "https://www.instagram.com"
Markers == {"p", "reel", "reels", "stories", "story", "tv"}
\* path segments; "-x" is the one that starts with no word character
Segs == Markers \cup {"user"}
None == "None"
\* None where a url string is expected, and where a dict is
NoUrl == <<>>
NoResult == [status |-> "None"]

\* pat in url (pat a token sequence)
Contains(url, pat) ==
    \E i \in 0..(Len(url) - Len(pat)) :
        \A j \in 1..Len(pat) : url[i + j] = pat[j]

\* url.split(sep)[0] for sep '?' or '#': the tokens before the first one that starts with sep
SplitHead(url, seps) ==
    LET hits == {i \in 1..Len(url) : url[i] \in seps}
    IN  IF hits = {} THEN url
        ELSE SubSeq(url, 1, (CHOOSE i \in hits : \A k \in hits : i <= k) - 1)

RECURSIVE Strip(_)
\* str.strip()
Strip(url) ==
    IF url # <<>> /\ Head(url) = " " THEN Strip(Tail(url))
    ELSE IF url # <<>> /\ url[Len(url)] = " " THEN Strip(SubSeq(url, 1, Len(url) - 1))
    ELSE url

\* first characters [A-Za-z0-9_-] (an id of pattern 1) and [A-Za-z0-9_.] (a name of pattern 2)
StartsId(tok) == tok \in Segs \cup {"-x"}
StartsName(tok) == tok \in Segs

\* re.match of the two patterns: both are anchored at the start only
MatchesPattern1(url) ==
    /\ Len(url) >= 5
    /\ url[1] = Host /\ url[2] = "/" /\ url[3] \in Markers /\ url[4] = "/"
    /\ StartsId(url[5])
MatchesPattern2(url) ==
    /\ Len(url) >= 3
    /\ url[1] = Host /\ url[2] = "/" /\ StartsName(url[3])

sanitize_url(url) ==
    LET u == SplitHead(SplitHead(url, {"?q=1"}), {"#top"})
    IN  IF MatchesPattern1(u) \/ MatchesPattern2(u) THEN Strip(u) ELSE NoUrl

Has(url, seg) == Contains(url, <<"/", seg, "/">>)

\* get_media_type with the '/p/' test moved to the front
get_media_type_post_first(url) ==
    IF Has(url, "p") THEN "post"
    ELSE IF Has(url, "reel") \/ Has(url, "reels") THEN "reel"
    ELSE IF Has(url, "stories") \/ Has(url, "story") THEN "story"
    ELSE IF Has(url, "tv") THEN "igtv"
    ELSE "unknown"

get_media_type(url) ==
    IF Has(url, "reel") \/ Has(url, "reels") THEN "reel"
    ELSE IF Has(url, "stories") \/ Has(url, "story") THEN "story"
    ELSE IF Has(url, "tv") THEN "igtv"
    ELSE IF Has(url, "p") THEN "post"
    ELSE "unknown"

----------------------------------------------------------------------------
(* utlis/downloader.py: the extraction from the snapdownloader page.  A page  *)
(* is its title and the sequence of its <a> and <video><source> elements, in  *)
(* document order; an attribute value or a text is a string of a small table. *)

NoTitle == "NoTitle"
Titles == {NoTitle, " Snap "}
StripTitle(t) == IF t = " Snap " THEN "Snap" ELSE t

V1 == "https://x/v.mp4"
V2amp == "https://x/w.mp4?a=1&amp;b=2"
V2 == "https://x/w.mp4?a=1&b=2"
I1 == "https://x/i.jpg"
VI == "https://x/t.mp4.png"
Page == "https://x/page"

\* html.unescape
Unescape(h) == IF h = V2amp THEN V2 ELSE h
HasMp4(h) == h \in {V1, V2amp, V2, VI}
HasImage(h) == h \in {I1, VI}

\* the tokens of a lowercased link text
TextVideoHd == <<"download", "video", "hd", "1080p", "10mb">>
TextSd == <<"sd", "size:", "3.5 kb">>
TextPlain == <<"download">>
TextVideo == <<"video">>

InText(tok, text) == \E i \in 1..Len(text) : text[i] = tok

qualities == <<"hd", "high", "720p", "1080p", "4k", "sd", "low">>

_extract_quality(text) ==
    LET hits == {i \in 1..Len(qualities) : InText(qualities[i], text)}
    IN  IF hits = {} THEN "standard"
        ELSE qualities[CHOOSE i \in hits : \A k \in hits : i <= k]

\* r'(\d+(?:\.\d+)?)\s*(MB|KB|GB)', IGNORECASE; "<number> <UNIT>"
_extract_size(text) ==
    IF InText("10mb", text) THEN "10 MB"
    ELSE IF InText("3.5 kb", text) THEN "3.5 KB"
    ELSE "unknown"

A(cls, href, text) == [tag |-> "a", cls |-> cls, href |-> href, text |-> text]
Source(src) == [tag |-> "source", cls |-> "", href |-> src, text |-> <<>>]

Elements ==
    { A("btn-download", V1, TextVideoHd),
      A("download-button", V1, TextSd),
      A("", V2amp, TextPlain),
      A("btn-download", V2, TextSd),
      A("btn-download", I1, TextPlain),
      A("", VI, TextSd),
      A("btn-download", Page, TextVideo),
      A("btn-download", "", TextVideo),
      A("", Page, TextVideo),
      Source(V1) }

Item(url, type, quality, size) ==
    [url |-> url, type |-> type, quality |-> quality, size |-> size]

DownloadClasses == {"btn-download", "download-button"}

RECURSIVE VideoAnchors(_)
\* lines 78-88
VideoAnchors(elems) ==
    IF elems = <<>> THEN <<>>
    ELSE LET a == Head(elems)
             href == Unescape(a.href)
             selected == a.tag = "a" /\ (a.cls \in DownloadClasses \/ HasMp4(a.href))
         IN  IF selected /\ href # "" /\ (HasMp4(href) \/ InText("video", a.text))
             THEN <<Item(href, "video", _extract_quality(a.text), _extract_size(a.text))>>
                      \o VideoAnchors(Tail(elems))
             ELSE VideoAnchors(Tail(elems))

RECURSIVE ImageAnchors(_)
\* lines 91-101
ImageAnchors(elems) ==
    IF elems = <<>> THEN <<>>
    ELSE LET a == Head(elems)
             href == Unescape(a.href)
             selected == a.tag = "a" /\ (a.cls \in DownloadClasses \/ HasImage(a.href))
         IN  IF selected /\ href # "" /\ HasImage(href)
             THEN <<Item(href, "image", _extract_quality(a.text), _extract_size(a.text))>>
                      \o ImageAnchors(Tail(elems))
             ELSE ImageAnchors(Tail(elems))

RECURSIVE VideoSources(_)
\* lines 104-112
VideoSources(elems) ==
    IF elems = <<>> THEN <<>>
    ELSE LET v == Head(elems)
             src == Unescape(v.href)
         IN  IF v.tag = "source" /\ src # "" /\ HasMp4(src)
             THEN <<Item(src, "video", "unknown", "unknown")>> \o VideoSources(Tail(elems))
             ELSE VideoSources(Tail(elems))

\* lines 75-112: media_items as collected
Collect(elems) == VideoAnchors(elems) \o ImageAnchors(elems) \o VideoSources(elems)

RECURSIVE UniqueFrom(_, _)
UniqueFrom(items, seen_urls) ==
    IF items = <<>> THEN <<>>
    ELSE IF Head(items).url \notin seen_urls
    THEN <<Head(items)>> \o UniqueFrom(Tail(items), seen_urls \cup {Head(items).url})
    ELSE UniqueFrom(Tail(items), seen_urls)

\* the loop of lines 115-120 with the membership test left out
Unique_keep_all(items) == items

\* lines 115-120
Unique(items) == UniqueFrom(items, {})

Error(message) == [status |-> "error", message |-> message]

\* f"Failed to load page: {r.status_code}"
FailedToLoad(code) ==
    IF code = 404 THEN "Failed to load page: 404" ELSE "Failed to load page: 503"

\* download_from_snapdownloader returning what it collected although the page had no media
download_from_snapdownloader_empty_success(reply) ==
    IF reply.kind = "timeout" THEN Error("Request timeout")
    ELSE IF reply.kind = "exception" THEN Error("Connection aborted.")
    ELSE IF reply.code # 200 THEN Error(FailedToLoad(reply.code))
    ELSE LET unique_items == Unique(Collect(reply.doc.elems))
         IN  [status |-> "success", media |-> unique_items,
              metadata |-> IF reply.doc.title = NoTitle THEN <<>>
                           ELSE [title |-> StripTitle(reply.doc.title)],
              count |-> Len(unique_items)]

\* download_from_snapdownloader, from the upstream's reply on (lines 63-135)
download_from_snapdownloader(reply) ==
    IF reply.kind = "timeout" THEN Error("Request timeout")
    ELSE IF reply.kind = "exception" THEN Error("Connection aborted.")
    ELSE IF reply.code # 200 THEN Error(FailedToLoad(reply.code))
    ELSE LET unique_items == Unique(Collect(reply.doc.elems))
         IN  IF unique_items # <<>>
             THEN [status |-> "success", media |-> unique_items,
                   metadata |-> IF reply.doc.title = NoTitle THEN <<>>
                                ELSE [title |-> StripTitle(reply.doc.title)],
                   count |-> Len(unique_items)]
             ELSE Error("No media found")

----------------------------------------------------------------------------
(* utlis/downloader.py: get_reel, get_story, get_post, get_igtv and get_all,  *)
(* one upstream fetch at a time                                               *)

REEL_DOWNLOADER == "https://snapdownloader.com/tools/instagram-reels-downloader/download?url="
STORY_DOWNLOADER == "https://snapdownloader.com/tools/instagram-story-downloader/download?url="
POST_DOWNLOADER == "https://snapdownloader.com/tools/instagram-photo-downloader/download?url="
IGTV_DOWNLOADER == "https://snapdownloader.com/tools/instagram-igtv-downloader/download?url="

\* get_reel, get_story, get_post, get_igtv: the endpoint each one fetches
EndpointOf(type) ==
    CASE type = "reel" -> REEL_DOWNLOADER
      [] type = "story" -> STORY_DOWNLOADER
      [] type = "post" -> POST_DOWNLOADER
      [] type = "igtv" -> IGTV_DOWNLOADER

\* the list of line 186 with get_story added to it
Fallback_with_story == <<"reel", "story", "post", "igtv">>

\* line 186: [self.get_reel, self.get_post, self.get_igtv]
Fallback == <<"reel", "post", "igtv">>

Getters == {"get_reel", "get_story", "get_post", "get_igtv"}
TypeOf(fn) ==
    CASE fn = "get_reel" -> "reel"
      [] fn = "get_story" -> "story"
      [] fn = "get_post" -> "post"
      [] fn = "get_igtv" -> "igtv"

UrlPaths ==
    UNION { {<<"/", a>>, <<"/", a, "/">>} : a \in Segs }
    \cup UNION { {<<"/", a, "/", b>>, <<"/", a, "/", b, "/">>} : a \in Segs, b \in Segs }
URLs == {<<Host>> \o path : path \in UrlPaths}
\* the urls the getters are called with directly (a getter does not look at its url)
GetterURLs == {<<Host, "/", "reel", "/", "user">>, <<Host, "/", "user">>,
               <<Host, "/", "stories", "/", "user", "/">>}

SeqsUpTo(S, n) == UNION {[1..k -> S] : k \in 0..n}
Docs == [title : Titles, elems : SeqsUpTo(Elements, MaxElems)]
NoPage == [title |-> NoTitle, elems |-> <<>>]
\* what the upstream may answer to one fetch
Replies ==
    {[kind |-> k, code |-> 0, doc |-> NoPage] : k \in {"timeout", "exception"}}
    \cup {[kind |-> "http", code |-> c, doc |-> NoPage] : c \in {404, 503}}
    \cup {[kind |-> "http", code |-> 200, doc |-> d] : d \in Docs}

\* the replies the views are exercised with
SomeReplies ==
    {r \in Replies : r.kind = "http" => (r.code = 200 => Len(r.doc.elems) <= 1)}

NoCall == [fn |-> "", url |-> <<>>, media_type |-> "", pc |-> "idle", todo |-> <<>>]

NoData == [kind |-> "None", has_url |-> FALSE, is_str |-> FALSE, url |-> <<>>]
NoReq == [ip |-> "", method |-> "", path |-> "", media_type |-> "", data |-> NoData, arg |-> None]
NoHttp == [code |-> 0, json |-> FALSE, body |-> NoResult, fetches |-> 0]

DlIdle ==
    /\ call = NoCall
    /\ log = <<>>
    /\ page = NoPage
    /\ result = NoResult
    /\ req = NoReq
    /\ view = None
    /\ http = NoHttp

Ends0(l) == {i \in 1..Len(l) : l[i].ev = "end"}

\* the call: get_all classifies the url; a getter has its one endpoint
Enter(fn, url) ==
    LET media_type == IF fn = "get_all" THEN get_media_type(url) ELSE ""
        todo == IF fn # "get_all" THEN <<TypeOf(fn)>>
                ELSE IF media_type = "unknown" THEN Fallback
                ELSE <<media_type>>
    IN  /\ call' = [fn |-> fn, url |-> url, media_type |-> media_type,
                    pc |-> "ready", todo |-> todo]
        /\ log' = <<>>
        /\ page' = NoPage
        /\ result' = NoResult

Call(fn, url) ==
    /\ call.pc = "idle"
    /\ Enter(fn, url)
    /\ UNCHANGED <<now, rateVars, concVars, httpVars>>

\* the caller has taken the result; the downloader keeps nothing of a call
Forget ==
    /\ call.pc = "done"
    /\ call' = NoCall
    /\ log' = <<>>
    /\ page' = NoPage
    /\ result' = NoResult
    /\ UNCHANGED <<now, rateVars, concVars, httpVars>>

\* lines 53-61: self.session.get(downloader_url + quote(url), ...) goes out
Send ==
    /\ call.pc = "ready"
    /\ log' = Append(log, [ev |-> "begin", ep |-> EndpointOf(Head(call.todo)),
                           url |-> call.url, res |-> NoResult])
    /\ call' = [call EXCEPT !.pc = "waiting"]
    /\ page' = NoPage
    /\ UNCHANGED <<now, rateVars, concVars, result, httpVars>>

\* lines 63-135, then the caller: a getter and a classified get_all return the
\* result as it is; the loop of lines 186-190 returns it if it is a success,
\* goes on to the next function if there is one, or gives up
Reply(reply) ==
    LET r == download_from_snapdownloader(reply)
        cascading == call.fn = "get_all" /\ call.media_type = "unknown"
    IN  /\ call.pc = "waiting"
        /\ log' = Append(log, [ev |-> "end", ep |-> EndpointOf(Head(call.todo)),
                               url |-> call.url, res |-> r])
        /\ page' = IF reply.kind = "http" /\ reply.code = 200 THEN reply.doc ELSE NoPage
        /\ IF ~cascading \/ r.status = "success"
           THEN /\ result' = r
                /\ call' = [call EXCEPT !.pc = "done"]
           ELSE IF Tail(call.todo) = <<>>
           THEN /\ result' = Error("Unable to download media")
                /\ call' = [call EXCEPT !.pc = "done"]
           ELSE /\ result' = result
                /\ call' = [call EXCEPT !.pc = "ready", !.todo = Tail(call.todo)]
        /\ UNCHANGED <<now, rateVars, concVars, httpVars>>

InitDl ==
    /\ now = 0
    /\ request_counts = <<>>
    /\ winStart = [ip \in IPs |-> -1]
    /\ winReqs = [ip \in IPs |-> 0]
    /\ blocked = {}
    /\ unblocked = {}
    /\ resp = NoResp
    /\ thr = <<>>
    /\ gen = <<>>
    /\ admits = 0
    /\ DlIdle

NextDl ==
    \/ \E url \in URLs : Call("get_all", url)
    \/ \E fn \in Getters, url \in GetterURLs : Call(fn, url)
    \/ Send
    \/ \E reply \in Replies : Reply(reply)
    \/ Forget

SpecDl == InitDl /\ [][NextDl]_vars

----------------------------------------------------------------------------
(* app.py: the views.  A request is its address, method and path, the JSON    *)
(* body of a POST and the url argument of /proxy.                             *)

Methods == {"GET", "POST"}
\* <media_type> of /download/<media_type>
PathTypes == {"reel", "story", "post", "igtv", "REEL", "audio"}

\* what request.get_json() meets in the body
Malformed == [kind |-> "malformed", has_url |-> FALSE, is_str |-> FALSE, url |-> <<>>]
JsonNull == [kind |-> "null", has_url |-> FALSE, is_str |-> FALSE, url |-> <<>>]
JsonNumber == [kind |-> "number", has_url |-> FALSE, is_str |-> FALSE, url |-> <<>>]
EmptyObject == [kind |-> "empty object", has_url |-> FALSE, is_str |-> FALSE, url |-> <<>>]
OtherObject == [kind |-> "object", has_url |-> FALSE, is_str |-> FALSE, url |-> <<>>]
UrlNumber == [kind |-> "object", has_url |-> TRUE, is_str |-> FALSE, url |-> <<>>]
UrlString(u) == [kind |-> "object", has_url |-> TRUE, is_str |-> TRUE, url |-> u]

BodyUrls ==
    { <<Host, "/", "reel", "/", "user">>,
      <<Host, "/", "user", " ">>,
      <<Host, "/", "p", "/", "-x", "?q=1", "#top">>,
      <<Host, "/", "stories", "/", "user", "/", "#top">>,
      <<"not-a-url">>,
      <<Host, "/", "-x">>,
      <<" ", Host, "/", "user">> }

Bodies == {Malformed, JsonNull, JsonNumber, EmptyObject, OtherObject, UrlNumber}
              \cup {UrlString(u) : u \in BodyUrls}

\* request.args.get('url') of /proxy
ProxyArgs == {None, "", "https://x/v.mp4", "https://x/PHOTO.JPG", "https://x/file.exe"}
\* any(ext in media_url.lower() for ext in ['.mp4', '.jpg', '.jpeg', '.png'])
HasMediaExt(media_url) == media_url \in {"https://x/v.mp4", "https://x/PHOTO.JPG"}

\* what the remote host may answer to the fetch of /proxy
ProxyReplies == {"timeout", "404", "200"}

Requests ==
    [ip : IPs, method : {"GET"}, path : {"/", "/health", "/nope", "/download"},
     media_type : {""}, data : {NoData}, arg : {None}]
    \cup [ip : IPs, method : {"POST"}, path : {"/download", "/info", "/health"},
          media_type : {""}, data : Bodies, arg : {None}]
    \cup [ip : IPs, method : {"POST"}, path : {"/download/<media_type>"},
          media_type : PathTypes, data : Bodies, arg : {None}]
    \cup [ip : IPs, method : {"GET"}, path : {"/proxy"},
          media_type : {""}, data : {NoData}, arg : ProxyArgs]

Json(code, body) == [code |-> code, json |-> TRUE, body |-> body, fetches |-> 0]
NotJson(code) == [code |-> code, json |-> FALSE, body |-> NoResult, fetches |-> 0]
ServerError == Json(500, Error("Server error"))

\* the methods of each route; a path with none is not routed
Allowed(path) ==
    CASE path \in {"/", "/health", "/proxy"} -> {"GET"}
      [] path \in {"/download", "/download/<media_type>", "/info"} -> {"POST"}
      [] OTHER -> {}

Lower(media_type) == IF media_type = "REEL" THEN "reel" ELSE media_type

\* The start of download_all, download_specific and get_info, up to the call
\* of the downloader: the response (lines 89-102, 107-111), or NoHttp to go on
Validate(data) ==
    IF data.kind = "malformed" THEN ServerError         \* get_json() raises BadRequest
    ELSE IF data.kind \in {"null", "empty object"}      \* not data
    THEN Json(400, Error("Please provide 'url' in JSON body"))
    ELSE IF data.kind = "number" THEN ServerError       \* 'url' not in 5: TypeError
    ELSE IF ~data.has_url THEN Json(400, Error("Please provide 'url' in JSON body"))
    ELSE IF ~data.is_str THEN ServerError               \* (5).split: AttributeError
    ELSE IF sanitize_url(data.url) = NoUrl THEN Json(400, Error("Invalid Instagram URL"))
    ELSE NoHttp

\* download_specific: the getter of the media type, or None (lines 132-146)
GetterOf(media_type) ==
    IF Lower(media_type) \in {"reel", "story", "post", "igtv"}
    THEN CASE Lower(media_type) = "reel" -> "get_reel"
           [] Lower(media_type) = "story" -> "get_story"
           [] Lower(media_type) = "post" -> "get_post"
           [] Lower(media_type) = "igtv" -> "get_igtv"
    ELSE None

Respond(r) ==
    /\ http' = r
    /\ view' = None
    /\ UNCHANGED <<call, page, result>>

\* One request comes in: the before_request hook, the routing, and the view up
\* to its response or to its first outbound fetch.
Request(q) ==
    LET hook == before_request(request_counts, q.ip, q.path, now)
        bad == Validate(q.data)
    IN  /\ view = None /\ call.pc = "idle"
        /\ q.path # "/health" => Sum([ip \in DOMAIN request_counts |->
                                        request_counts[ip].count]) < MaxHttpRequests
        /\ request_counts' = hook.counts
        /\ req' = q
        /\ log' = <<>>
        /\ IF hook.code = 429
           THEN Respond(Json(429, Error("Rate limit exceeded. Please try again later.")))
           ELSE IF Allowed(q.path) = {}
           THEN Respond(Json(404, Error("Endpoint not found")))
           ELSE IF q.method \notin Allowed(q.path)
           THEN Respond(Json(405, Error("Method not allowed")))
           ELSE IF q.path = "/"
           THEN \E has_template \in BOOLEAN :   \* os.path.exists('templates/index.html')
                    Respond(IF has_template THEN NotJson(200)
                            ELSE Json(200, [api |-> "Instagram Downloader API"]))
           ELSE IF q.path = "/health"
           THEN \E datetime_bound \in BOOLEAN : \* line 267 binds datetime under __main__ only
                    Respond(IF datetime_bound THEN Json(200, [status |-> "healthy"])
                            ELSE NotJson(500))
           ELSE IF q.path = "/proxy"
           THEN IF q.arg \in {None, ""}
                THEN Respond(Json(400, Error("Please provide 'url' parameter")))
                ELSE IF ~HasMediaExt(q.arg)
                THEN Respond(Json(400, Error("Invalid media URL")))
                ELSE /\ view' = "proxy_download"
                     /\ http' = NoHttp
                     /\ UNCHANGED <<call, page, result>>
           ELSE IF bad # NoHttp
           THEN Respond(bad)
           ELSE IF q.path = "/download/<media_type>" /\ GetterOf(q.media_type) = None
           THEN Respond(Json(400, Error("Invalid media type. Use: reel, story, post, or igtv")))
           ELSE /\ view' = CASE q.path = "/download" -> "download_all"
                             [] q.path = "/info" -> "get_info"
                             [] OTHER -> "download_specific"
                /\ call' = [fn |-> IF q.path = "/download/<media_type>"
                                   THEN GetterOf(q.media_type) ELSE "get_all",
                            url |-> sanitize_url(q.data.url),
                            media_type |-> "", pc |-> "called", todo |-> <<>>]
                /\ http' = NoHttp
                /\ UNCHANGED <<page, result>>
        /\ UNCHANGED <<now, winStart, winReqs, blocked, unblocked, resp, concVars>>

\* the view's call of the downloader is entered
Dispatch ==
    /\ call.pc = "called"
    /\ Enter(call.fn, call.url)
    /\ UNCHANGED <<now, rateVars, concVars, httpVars>>

\* download_all, download_specific and get_info answer with the result
\* (lines 105, 148, 178-189); the downloader call is over
ViewReturn ==
    /\ view \in {"download_all", "download_specific", "get_info"}
    /\ call.pc = "done"
    /\ http' = [code |-> 200, json |-> TRUE, fetches |-> Cardinality(Ends0(log)),
                body |-> IF view = "get_info" /\ result.status = "success"
                         THEN [status |-> "success", url |-> call.url,
                               media_type |-> get_media_type(call.url),
                               media_count |-> result.count,
                               media_items |-> result.media,
                               metadata |-> result.metadata]
                         ELSE result]
    /\ view' = None
    /\ call' = NoCall
    /\ log' = <<>>
    /\ page' = NoPage
    /\ result' = NoResult
    /\ UNCHANGED <<now, rateVars, concVars, req>>

\* proxy_download: requests.get(media_url, ...) and what follows (lines 221-250)
ProxyFetch(reply) ==
    /\ view = "proxy_download"
    /\ http' = [IF reply = "200" THEN NotJson(200)
                ELSE IF reply = "404" THEN Json(500, Error("Failed to download media: 404"))
                ELSE ServerError
                EXCEPT !.fetches = 1]
    /\ view' = None
    /\ UNCHANGED <<now, rateVars, concVars, dlVars, req>>

Init ==
    /\ now = 0
    /\ request_counts = <<>>
    /\ winStart = [ip \in IPs |-> -1]
    /\ winReqs = [ip \in IPs |-> 0]
    /\ blocked = {}
    /\ unblocked = {}
    /\ resp = NoResp
    /\ thr = <<>>
    /\ gen = <<>>
    /\ admits = 0
    /\ DlIdle

Next ==
    \/ \E q \in Requests : Request(q)
    \/ Dispatch
    \/ Send
    \/ \E reply \in SomeReplies : Reply(reply)
    \/ ViewReturn
    \/ \E reply \in ProxyReplies : ProxyFetch(reply)

Spec == Init /\ [][Next]_vars

----------------------------------------------------------------------------
(* The limiter under sequential requests *)

InitRate ==
    /\ now = 0
    /\ request_counts = <<>>
    /\ winStart = [ip \in IPs |-> -1]
    /\ winReqs = [ip \in IPs |-> 0]
    /\ blocked = {}
    /\ unblocked = {}
    /\ resp = NoResp
    /\ thr = <<>>
    /\ gen = <<>>
    /\ admits = 0
    /\ DlIdle

Tick ==
    /\ \E t \in Instants : t > now /\ now' = t
    /\ UNCHANGED <<rateVars, concVars, dlVars, httpVars>>

\* One request from ip for path passes the before_request hook.  The observer
\* variables follow the window as the claims word it: a window opens with the
\* first request of an address and with the first one that comes more than
\* WINDOW seconds after the window's first request.
Hook(ip, path) ==
    LET r == before_request(request_counts, ip, path, now)
        opens == winStart[ip] < 0 \/ now - winStart[ip] > WINDOW
    IN  /\ path # "/health" => Sum(winReqs) < MaxRequests
        /\ request_counts' = r.counts
        /\ resp' = [ip |-> ip, path |-> path, code |-> r.code]
        /\ IF path = "/health"
           THEN UNCHANGED <<winStart, winReqs, blocked, unblocked>>
           ELSE /\ winStart' = [winStart EXCEPT ![ip] = IF opens THEN now ELSE @]
                /\ winReqs' = [winReqs EXCEPT ![ip] = IF opens THEN 1 ELSE @ + 1]
                /\ blocked' = IF r.code = 429 THEN blocked \cup {ip} ELSE blocked \ {ip}
                /\ unblocked' = IF r.code # 429 /\ ip \in blocked
                                THEN unblocked \cup {ip} ELSE unblocked \ {ip}
        /\ UNCHANGED <<now, concVars, dlVars, httpVars>>

NextRate ==
    \/ Tick
    \/ \E ip \in IPs, path \in Paths : Hook(ip, path)

SpecRate == InitRate /\ [][NextRate]_vars

----------------------------------------------------------------------------
(* The limiter under concurrent handler threads (app.run serves each request *)
(* in a thread of its own).  One address; a thread runs check_rate_limit one *)
(* test or one load or store at a time.  The calls of a burst all read the   *)
(* same clock, so that they all fall in one window.                          *)

Threads == 1..NThreads
Client == "10.0.0.1"

Idle == [pc |-> "idle", t |-> 0, d |-> 0, c |-> 0]

InitConc ==
    /\ now = 0
    /\ request_counts = <<>>
    /\ winStart = [ip \in IPs |-> -1]
    /\ winReqs = [ip \in IPs |-> 0]
    /\ blocked = {}
    /\ unblocked = {}
    /\ resp = NoResp
    /\ thr = [th \in Threads |-> Idle]
    /\ gen = [ip \in {Client} |-> 0]
    /\ admits = 0
    /\ DlIdle

Return(th, ok) ==
    /\ thr' = [thr EXCEPT ![th] = Idle]
    /\ admits' = IF ok /\ thr[th].t <= WINDOW THEN admits + 1 ELSE admits

\* line 28: current_time = time.time()
ReadClock(th) ==
    /\ thr[th].pc = "idle"
    /\ admits < MaxRequests
    /\ thr' = [thr EXCEPT ![th] = [Idle EXCEPT !.pc = "l29", !.t = now]]
    /\ UNCHANGED <<now, rateVars, gen, admits, dlVars, httpVars>>

\* line 29: if ip not in request_counts
TestMember(th) ==
    /\ thr[th].pc = "l29"
    /\ thr' = [thr EXCEPT ![th].pc = IF Client \notin DOMAIN request_counts
                                      THEN "l30" ELSE "l34"]
    /\ UNCHANGED <<now, rateVars, gen, admits, dlVars, httpVars>>

\* lines 30-31 and 35-36: request_counts[ip] = {'count': 1, ...}; return True
StoreFresh(th) ==
    /\ thr[th].pc \in {"l30", "l35"}
    /\ request_counts' = Put(request_counts, Client, Fresh(thr[th].t))
    /\ gen' = [gen EXCEPT ![Client] = @ + 1]
    /\ Return(th, TRUE)
    /\ UNCHANGED <<now, winStart, winReqs, blocked, unblocked, resp, dlVars, httpVars>>

\* line 34: if current_time - request_counts[ip]['timestamp'] > 3600
TestWindow(th) ==
    /\ thr[th].pc = "l34"
    /\ thr' = [thr EXCEPT ![th].pc =
                  IF thr[th].t - request_counts[Client].timestamp > WINDOW
                  THEN "l35" ELSE "l39"]
    /\ UNCHANGED <<now, rateVars, gen, admits, dlVars, httpVars>>

\* lines 39-40: if request_counts[ip]['count'] >= 100: return False
TestLimit(th) ==
    /\ thr[th].pc = "l39"
    /\ IF request_counts[Client].count >= RATE_MAX
       THEN Return(th, FALSE)
       ELSE thr' = [thr EXCEPT ![th].pc = "l42"] /\ UNCHANGED admits
    /\ UNCHANGED <<now, rateVars, gen, dlVars, httpVars>>

\* line 42, first half: load request_counts[ip] (the dict) and its 'count'
LoadCount(th) ==
    /\ thr[th].pc = "l42"
    /\ thr' = [thr EXCEPT ![th] = [@ EXCEPT !.pc = "l42s", !.d = gen[Client],
                                            !.c = request_counts[Client].count]]
    /\ UNCHANGED <<now, rateVars, gen, admits, dlVars, httpVars>>

\* lines 42-43, second half: store count + 1 into that dict; return True.  A
\* dict that line 35 has replaced meanwhile is no longer in the map.
StoreCount(th) ==
    /\ thr[th].pc = "l42s"
    /\ request_counts' =
          IF thr[th].d = gen[Client]
          THEN Put(request_counts, Client,
                   [request_counts[Client] EXCEPT !.count = thr[th].c + 1])
          ELSE request_counts
    /\ Return(th, TRUE)
    /\ UNCHANGED <<now, winStart, winReqs, blocked, unblocked, resp, gen, dlVars, httpVars>>

NextConc ==
    \/ \E th \in Threads :
          \/ ReadClock(th)
          \/ TestMember(th)
          \/ StoreFresh(th)
          \/ TestWindow(th)
          \/ TestLimit(th)
          \/ LoadCount(th)
          \/ StoreCount(th)

SpecConc == InitConc /\ [][NextConc]_vars

AllIdle == \A th \in Threads : thr[th].pc = "idle"

\* C10: under any interleaving of the steps of concurrent check_rate_limit
\* calls for one address, at most 100 calls are admitted within one window
\* and, once every call has returned, the stored count of a window that was
\* never reset is the number of calls admitted in it (no increment is lost).
C10_NoRaceOnCount ==
    /\ admits <= RATE_MAX
    /\ (AllIdle /\ gen[Client] = 1 /\ now <= WINDOW) => request_counts[Client].count = admits

----------------------------------------------------------------------------
(* Properties of the downloader *)

Done == call.pc = "done"
Begin(type) == [ev |-> "begin", ep |-> EndpointOf(type)]
End(type) == [ev |-> "end", ep |-> EndpointOf(type)]
Kind(e) == [ev |-> e.ev, ep |-> e.ep]
IsPrefix(s, t) == Len(s) <= Len(t) /\ \A i \in 1..Len(s) : s[i] = t[i]
Kinds(l) == [i \in 1..Len(l) |-> Kind(l[i])]
Ends == {i \in 1..Len(log) : log[i].ev = "end"}
LastSucceeded == Len(log) \in Ends /\ log[Len(log)].res.status = "success"

C2_WitnessAllFail ==
    /\ call.fn = "get_all" /\ call.media_type = "unknown" /\ Done
    /\ Len(log) = 6
    /\ result.message = "Unable to download media"

WellFormed(r) ==
    \/ /\ DOMAIN r = {"status", "media", "metadata", "count"}
       /\ r.status = "success"
       /\ Len(r.media) > 0
       /\ r.count = Len(r.media)
    \/ /\ DOMAIN r = {"status", "message"}
       /\ r.status = "error"

\* C4: whatever the upstream answered, the result of every fetch and the
\* result a getter or get_all returns is either a success with a non-empty
\* media sequence, count = its length and no message, or an error with a
\* message and neither media nor count.
C4_ResultShape ==
    /\ \A i \in Ends : WellFormed(log[i].res)
    /\ Done => WellFormed(result)

C4_Witness ==
    /\ Done /\ call.fn \in Getters
    /\ page # NoPage /\ page.elems # <<>>
    /\ result = [status |-> "error", message |-> "No media found"]

\* the places of the collected items that are the first with their url
FirstPlaces(c) == {j \in 1..Len(c) : \A k \in 1..(j - 1) : c[k].url # c[j].url}
\* how many first places come at or before place j
Rank(c, j) == Cardinality({k \in FirstPlaces(c) : k <= j})

\* C5: in a success result no two media items share a url; the items are the
\* collected ones (video anchors, image anchors, video sources) that are the
\* first with their url, in the order in which they were collected.
C5_Dedup ==
    (Done /\ result.status = "success" /\ page # NoPage) =>
        LET c == Collect(page.elems)
            m == result.media
        IN  /\ \A i, j \in 1..Len(m) : i # j => m[i].url # m[j].url
            /\ Len(m) = Cardinality(FirstPlaces(c))
            /\ \A j \in FirstPlaces(c) : m[Rank(c, j)] = c[j]

C5_Witness ==
    /\ Done /\ result.status = "success"
    /\ result.count = 2
    /\ Len(Collect(page.elems)) = 3
    /\ result.media[1].type = "video"

\* C6: get_media_type answers reel for a url with /reel/ or /reels/, else
\* story for /stories/ or /story/, else igtv for /tv/, else post for /p/, else
\* unknown; and for a url it classifies, get_all fetches the endpoint of that
\* type once and returns the result of that fetch as it is, error or not.
C6_ClassifiedDispatch ==
    call.fn = "get_all" =>
        LET u == call.url
            t == call.media_type
            R == Has(u, "reel") \/ Has(u, "reels")
            S == Has(u, "stories") \/ Has(u, "story")
            T == Has(u, "tv")
            P == Has(u, "p")
        IN  /\ t = "reel" <=> R
            /\ t = "story" <=> (~R /\ S)
            /\ t = "igtv" <=> (~R /\ ~S /\ T)
            /\ t = "post" <=> (~R /\ ~S /\ ~T /\ P)
            /\ t = "unknown" <=> (~R /\ ~S /\ ~T /\ ~P)
            /\ t # "unknown" =>
                  /\ IsPrefix(Kinds(log), <<Begin(t), End(t)>>)
                  /\ \A i \in 1..Len(log) : log[i].url = u
                  /\ Done <=> Len(log) = 2
                  /\ Done => result = log[2].res

C6_Witness ==
    /\ call.fn = "get_all" /\ Done
    /\ Has(call.url, "p") /\ Has(call.url, "tv")
    /\ call.media_type = "igtv"
    /\ Len(log) = 2 /\ log[2].ep = IGTV_DOWNLOADER
    /\ result.status = "error"

----------------------------------------------------------------------------
(* Properties of the views *)

Answered == view = None /\ http # NoHttp
ErrorCodes == {400, 429, 404, 405, 500}
IsError(h) == h.json /\ "status" \in DOMAIN h.body /\ h.body.status = "error"

\* C3: every JSON response whose body has status "error" carries one of the
\* codes 400, 429, 404, 405, 500; a failed upstream fetch, a page without
\* media and an exhausted cascade are never answered with HTTP 200.
C3_ErrorsCarryErrorCodes ==
    (Answered /\ IsError(http)) => http.code \in ErrorCodes

Posted == req.method = "POST" /\ req.path \in {"/download", "/download/<media_type>", "/info"}
LacksUrl == req.data # NoData /\ ~req.data.has_url
Rejected == req.data.has_url /\ req.data.is_str /\ sanitize_url(req.data.url) = NoUrl
NoProxyUrl == req.arg \in {None, ""}
NoMediaExt == ~NoProxyUrl /\ ~HasMediaExt(req.arg)

\* C9: on /download, /download/<type> and /info a body without 'url' and a
\* url that sanitize_url rejects get HTTP 400 ('Invalid Instagram URL' for
\* the rejected url); on /proxy a missing url and a url without a media
\* extension get HTTP 400 ('Invalid media URL' for the extension); and none
\* of these requests causes an outbound fetch.
C9_BadInputIs400 ==
    Answered =>
        /\ (Posted /\ (LacksUrl \/ Rejected)) =>
              /\ http.code = 400 /\ http.fetches = 0
              /\ Rejected => http.body.message = "Invalid Instagram URL"
        /\ (req.path = "/proxy" /\ req.method = "GET" /\ (NoProxyUrl \/ NoMediaExt)) =>
              /\ http.code = 400 /\ http.fetches = 0
              /\ NoMediaExt => http.body.message = "Invalid media URL"

\* What does hold of these requests: none causes an outbound fetch, and each
\* is answered 400 or, where the view's except clause catches an exception
\* of its own making, 500.
BadInputNeverFetches ==
    /\ (Posted /\ (LacksUrl \/ Rejected)) => log = <<>>
    /\ (Answered /\ Posted /\ (LacksUrl \/ Rejected)) =>
          /\ http.fetches = 0
          /\ http.code = IF req.data.kind \in {"malformed", "number"} THEN 500 ELSE 400
    /\ (req.path = "/proxy" /\ req.method = "GET" /\ (NoProxyUrl \/ NoMediaExt)) =>
          /\ view = None /\ http.code = 400 /\ http.fetches = 0

Min(a, b) == IF a < b THEN a ELSE b

\* C1: for every address, the latest limited request, the winReqs-th of its
\* window, was answered 429 exactly when more than 100 came before it in the
\* window (the first 100 are admitted, the 101st and the later ones rejected),
\* and the stored count is the number admitted in the window, never above 100.
C1_FirstHundredAdmitted ==
    \A ip \in IPs :
        /\ winReqs[ip] > 0 => (ip \in blocked <=> winReqs[ip] > RATE_MAX)
        /\ winReqs[ip] > 0 <=> ip \in DOMAIN request_counts
        /\ ip \in DOMAIN request_counts =>
              /\ request_counts[ip].count = Min(winReqs[ip], RATE_MAX)
              /\ request_counts[ip].count <= RATE_MAX
        /\ (resp.ip = ip /\ resp.path \notin {"", "/health"}) =>
              (resp.code = 429 <=> winReqs[ip] > RATE_MAX)

C1_Witness ==
    \E ip \in IPs :
        /\ winReqs[ip] = RATE_MAX + 1
        /\ resp = [ip |-> ip, path |-> "/download", code |-> 429]
        /\ request_counts[ip].count = RATE_MAX

\* A step in which a limited request of ip was served
Limited(ip) == winReqs'[ip] # winReqs[ip] \/ winStart'[ip] # winStart[ip]

\* C7: a request to /health is never answered 429 and leaves request_counts as
\* it was, whatever the map holds; a request to any other path changes the map
\* and is answered as check_rate_limit decides for its address.
C7_HealthBypasses ==
    [][/\ resp'.path = "/health" =>
            resp'.code # 429 /\ request_counts' = request_counts
       /\ \A ip \in IPs : Limited(ip) =>
            /\ resp'.ip = ip /\ resp'.path \in Paths \ {"/health"}
            /\ request_counts' = check_rate_limit(request_counts, ip, now).counts
            /\ resp'.code = 429 <=> ~check_rate_limit(request_counts, ip, now).ok]_vars

C7_Witness ==
    /\ resp.path = "/health"
    /\ resp.code = 0
    /\ resp.ip \in blocked
    /\ request_counts[resp.ip].count = RATE_MAX

\* C8: a request inside the window, admitted or rejected, leaves the window's
\* start timestamp alone; a request more than 3600 s after that timestamp is
\* admitted, even after a 429, and stores count 1 with the current time.
C8_FixedWindow ==
    [][\A ip \in IPs : (Limited(ip) /\ ip \in DOMAIN request_counts) =>
          IF now - request_counts[ip].timestamp > WINDOW
          THEN /\ resp'.code # 429
               /\ ip \notin blocked'
               /\ request_counts'[ip] = [count |-> 1, timestamp |-> now]
          ELSE request_counts'[ip].timestamp = request_counts[ip].timestamp]_vars

C8_Witness ==
    \E ip \in unblocked :
        /\ now > WINDOW
        /\ request_counts[ip] = [count |-> 1, timestamp |-> now]
        /\ resp.ip = ip /\ resp.code = 0

====
